---- MODULE Spec2Model ----
(***************************************************************************)
(* A model of the boolean-expression truth-table program (src/Proto.rs)   *)
(* and of the second parser variant (src/main.rs).                         *)
(*                                                                         *)
(* An expression string is represented by the sequence of its words, the  *)
(* items that str::split_whitespace yields.  Option<T> is a sequence of   *)
(* length 0 (None) or 1 (Some).  A Token is a tuple whose first element   *)
(* is the variant name; an AST is a record whose field k is the variant.  *)
(***************************************************************************)
EXTENDS Integers, Sequences, FiniteSets, TLC

VARIABLES
    args,        \* Args: expression (Option of words), s, e
    pc,          \* position of main: start, parse, parsed, table, done, panic
    tokens,      \* the VecDeque<Token> handed to parse_expr
    tokens0,     \* the token sequence as tokenize returned it
    frames,      \* call stack of parse_expr: each frame has stack and operators
    ret,         \* the last return of a parse_expr call: operand-stack height and result
    parsed,      \* the Option<AST> the outermost parse_expr call returned
    out,         \* the lines printed so far
    vars_,       \* generate_truth_table: vars (Vec<String>)
    total_rows,  \* generate_truth_table: total_rows (i32)
    i,           \* generate_truth_table: loop counter
    rows,        \* the rows evaluated so far: i, values, result, steps
    p2_pc,       \* main.rs parse: off, run, done
    p2_tokens,   \* main.rs parse: the VecDeque<Token>
    p2_stack,    \* main.rs parse: stack
    p2_res,      \* main.rs parse: the Option<AST> returned
    e_pc,        \* evaluate_steps called alone: off, call, done
    e_ast,       \* evaluate_steps called alone: ast
    e_values,    \* evaluate_steps called alone: values
    e_out        \* evaluate_steps called alone: result, steps and evaluation log

vars == <<args, pc, tokens, tokens0, frames, ret, parsed, out, vars_, total_rows,
          i, rows, p2_pc, p2_tokens, p2_stack, p2_res, e_pc, e_ast, e_values, e_out>>

mainVars  == <<args, out, vars_, total_rows, i, rows>>
parseVars == <<tokens, tokens0, frames, ret, parsed>>
p2Vars    == <<p2_pc, p2_tokens, p2_stack, p2_res>>
evalVars  == <<e_pc, e_ast, e_values, e_out>>

----------------------------------------------------------------------------
(* Bounds *)

MaxLen == 4        \* longest enumerated expression, in words
MaxShuffle == 3    \* largest collection whose iteration orders are all enumerated
MaxNodes == 6      \* largest AST handed to evaluate_steps alone, in nodes

(* Program constants *)

I32Bits == 32      \* width of the integer type of total_rows and i

----------------------------------------------------------------------------
(* Option, Vec *)

None == <<>>
Some(x) == <<x>>

Last(s) == s[Len(s)]
Front(s) == SubSeq(s, 1, Len(s) - 1)

----------------------------------------------------------------------------
(* Tokens and ASTs *)

TAnd == <<"And">>
TOr == <<"Or">>
TNot == <<"Not">>
TLParen == <<"LParen">>
TRParen == <<"RParen">>
TVar(w) == <<"Var", w>>

ASTVar(v) == [k |-> "Var", v |-> v]
ASTNot(x) == [k |-> "Not", e |-> x]
ASTAnd(l, r) == [k |-> "And", l |-> l, r |-> r]
ASTOr(l, r) == [k |-> "Or", l |-> l, r |-> r]

\* tokenize: one token per word, in input order
classify(word) ==
    CASE word = "and" -> TAnd
      [] word = "or" -> TOr
      [] word = "not" -> TNot
      [] word = "(" -> TLParen
      [] word = ")" -> TRParen
      [] OTHER -> TVar(word)

tokenize(input) == [n \in 1..Len(input) |-> classify(input[n])]

----------------------------------------------------------------------------
(* parse_expr (src/Proto.rs) *)

IsBinop(op) == op = TAnd \/ op = TOr

\* the match on the popped operator, for an operator that is And or Or
MkNode(op, left, right) ==
    IF op = TAnd THEN ASTAnd(left, right) ELSE ASTOr(left, right)

\* the body of a reduction loop for one popped operator: pop right, pop left,
\* push the node; a lone operand is pushed back; an empty stack is left alone.
\* A popped operator that is neither And nor Or reaches unreachable!().
ReduceOnce(op, stack) ==
    IF stack = <<>>
    THEN [stack |-> stack, panic |-> FALSE]
    ELSE LET right == Last(stack)
             rest == Front(stack)
         IN  IF rest = <<>>
             THEN [stack |-> <<right>>, panic |-> FALSE]
             ELSE IF IsBinop(op)
                  THEN [stack |-> Append(Front(rest), MkNode(op, Last(rest), right)),
                        panic |-> FALSE]
                  ELSE [stack |-> Front(rest), panic |-> TRUE]

\* while let Some(op) = operators.pop() { ... }
RECURSIVE PopAll(_, _)
PopAll(stack, operators) ==
    IF operators = <<>>
    THEN [stack |-> stack, panic |-> FALSE]
    ELSE LET r == ReduceOnce(Last(operators), stack)
         IN  IF r.panic THEN r ELSE PopAll(r.stack, Front(operators))

\* stack.pop() as the value of the call
PopResult(stack) == IF stack = <<>> THEN None ELSE Some(Last(stack))

NewFrame == [stack |-> <<>>, operators |-> <<>>]
Top == frames[Len(frames)]
SetTop(f) == [frames EXCEPT ![Len(frames)] = f]

Parsing == pc = "parse" /\ frames # <<>>

\* Token::Var(v) => stack.push(AST::Var(v))
ParseVar ==
    /\ Parsing /\ tokens # <<>> /\ Head(tokens)[1] = "Var"
    /\ tokens' = Tail(tokens)
    /\ frames' = SetTop([Top EXCEPT !.stack = Append(@, ASTVar(Head(tokens)[2]))])
    /\ UNCHANGED <<pc, tokens0, ret, parsed, mainVars, p2Vars, evalVars>>

\* Token::Not => operators.push(Token::Not)
ParseNot ==
    /\ Parsing /\ tokens # <<>> /\ Head(tokens) = TNot
    /\ tokens' = Tail(tokens)
    /\ frames' = SetTop([Top EXCEPT !.operators = Append(@, TNot)])
    /\ UNCHANGED <<pc, tokens0, ret, parsed, mainVars, p2Vars, evalVars>>

\* Token::LParen => the nested call parse_expr(tokens) starts
ParseLParen ==
    /\ Parsing /\ tokens # <<>> /\ Head(tokens) = TLParen
    /\ tokens' = Tail(tokens)
    /\ frames' = Append(frames, NewFrame)
    /\ UNCHANGED <<pc, tokens0, ret, parsed, mainVars, p2Vars, evalVars>>

\* ParseBinop with the reduction left out: the token joins the pending operators
ParseBinop_deferred ==
    /\ Parsing /\ tokens # <<>> /\ IsBinop(Head(tokens))
    /\ tokens' = Tail(tokens)
    /\ frames' = SetTop([Top EXCEPT !.operators = Append(@, Head(tokens))])
    /\ UNCHANGED <<pc, tokens0, ret, parsed, mainVars, p2Vars, evalVars>>

\* Token::And | Token::Or => reduce every pending operator, push the token
ParseBinop ==
    /\ Parsing /\ tokens # <<>> /\ IsBinop(Head(tokens))
    /\ tokens' = Tail(tokens)
    /\ LET r == PopAll(Top.stack, Top.operators)
       IN  IF r.panic
           THEN /\ pc' = "panic"
                /\ UNCHANGED frames
           ELSE /\ pc' = pc
                /\ frames' = SetTop([stack |-> r.stack, operators |-> <<Head(tokens)>>])
    /\ UNCHANGED <<tokens0, ret, parsed, mainVars, p2Vars, evalVars>>

\* the end of a call: drain the operators, return stack.pop(); the caller of a
\* nested call pushes a Some result, main receives the outermost result
Return ==
    LET r == PopAll(Top.stack, Top.operators)
        res == PopResult(r.stack)
    IN  IF r.panic
        THEN /\ pc' = "panic"
             /\ UNCHANGED <<frames, ret, parsed>>
        ELSE /\ ret' = [height |-> Len(r.stack), res |-> res]
             /\ IF Len(frames) = 1
                THEN /\ frames' = <<>>
                     /\ parsed' = res
                     /\ pc' = "parsed"
                ELSE /\ LET caller == frames[Len(frames) - 1]
                            pushed == IF res = None THEN caller.stack
                                      ELSE Append(caller.stack, res[1])
                        IN  frames' = [Front(frames) EXCEPT ![Len(frames) - 1] =
                                          [caller EXCEPT !.stack = pushed]]
                     /\ UNCHANGED <<parsed, pc>>

\* Token::RParen => break
ParseRParen ==
    /\ Parsing /\ tokens # <<>> /\ Head(tokens) = TRParen
    /\ tokens' = Tail(tokens)
    /\ Return
    /\ UNCHANGED <<tokens0, mainVars, p2Vars, evalVars>>

\* tokens.pop_front() is None: the loop ends
ParseEnd ==
    /\ Parsing /\ tokens = <<>>
    /\ tokens' = tokens
    /\ Return
    /\ UNCHANGED <<tokens0, mainVars, p2Vars, evalVars>>

----------------------------------------------------------------------------
(* extract_variables, evaluate_steps (src/Proto.rs; src/main.rs has the same text) *)

\* vars.insert at every Var leaf; vars is a HashSet
RECURSIVE extract_variables(_, _)
extract_variables(ast, acc) ==
    CASE ast.k = "Var" -> acc \cup {ast.v}
      [] ast.k = "Not" -> extract_variables(ast.e, acc)
      [] OTHER -> extract_variables(ast.r, extract_variables(ast.l, acc))

\* {:?} of an AST (derived Debug; a Box prints as its content)
RECURSIVE Dbg(_)
Dbg(ast) ==
    CASE ast.k = "Var" -> "Var(\"" \o ast.v \o "\")"
      [] ast.k = "Not" -> "Not(" \o Dbg(ast.e) \o ")"
      [] ast.k = "And" -> "And(" \o Dbg(ast.l) \o ", " \o Dbg(ast.r) \o ")"
      [] OTHER -> "Or(" \o Dbg(ast.l) \o ", " \o Dbg(ast.r) \o ")"

\* the keys under which evaluate_steps records a node
KeyAnd(left, right) == "(" \o Dbg(left) \o " and " \o Dbg(right) \o ")"
KeyOr(left, right) == "(" \o Dbg(left) \o " or " \o Dbg(right) \o ")"
KeyNot(expr) == "not " \o Dbg(expr)

EmptyMap == [key \in {} |-> FALSE]

\* HashMap::insert: a later insert under the same key replaces the value
Insert(map, key, val) ==
    [x \in DOMAIN map \cup {key} |-> IF x = key THEN val ELSE map[x]]

\* GetOrFalse with unwrap_or(&true)
GetOrTrue(values, v) == IF v \in DOMAIN values THEN values[v] ELSE TRUE

\* *values.get(v).unwrap_or(&false)
GetOrFalse(values, v) == IF v \in DOMAIN values THEN values[v] ELSE FALSE

\* evaluate_steps with the recursive calls written inside && and ||, which
\* skip the right operand when the left one decides the result
RECURSIVE evaluate_steps_short_circuit(_, _, _)
evaluate_steps_short_circuit(ast, values, st) ==
    CASE ast.k = "Var" ->
            [result |-> GetOrFalse(values, ast.v),
             steps |-> st.steps,
             log |-> Append(st.log, ast)]
      [] ast.k \in {"And", "Or"} ->
            LET l == evaluate_steps_short_circuit(ast.l, values, st)
                skip == l.result = (ast.k = "Or")
                r == IF skip THEN l
                     ELSE evaluate_steps_short_circuit(ast.r, values,
                              [steps |-> l.steps, log |-> l.log])
                key == IF ast.k = "And" THEN KeyAnd(ast.l, ast.r)
                       ELSE KeyOr(ast.l, ast.r)
            IN  [result |-> r.result,
                 steps |-> Insert(r.steps, key, r.result),
                 log |-> Append(r.log, ast)]
      [] OTHER ->
            LET val == evaluate_steps_short_circuit(ast.e, values, st)
                result == ~val.result
            IN  [result |-> result,
                 steps |-> Insert(val.steps, KeyNot(ast.e), result),
                 log |-> Append(val.log, ast)]

\* evaluate_steps(ast, values, steps): st.steps is the map passed by &mut;
\* st.log lists the nodes in the order their evaluation completes
RECURSIVE evaluate_steps(_, _, _)
evaluate_steps(ast, values, st) ==
    CASE ast.k = "Var" ->
            [result |-> GetOrFalse(values, ast.v),
             steps |-> st.steps,
             log |-> Append(st.log, ast)]
      [] ast.k = "And" ->
            LET l == evaluate_steps(ast.l, values, st)
                r == evaluate_steps(ast.r, values, [steps |-> l.steps, log |-> l.log])
                result == l.result /\ r.result
            IN  [result |-> result,
                 steps |-> Insert(r.steps, KeyAnd(ast.l, ast.r), result),
                 log |-> Append(r.log, ast)]
      [] ast.k = "Or" ->
            LET l == evaluate_steps(ast.l, values, st)
                r == evaluate_steps(ast.r, values, [steps |-> l.steps, log |-> l.log])
                result == l.result \/ r.result
            IN  [result |-> result,
                 steps |-> Insert(r.steps, KeyOr(ast.l, ast.r), result),
                 log |-> Append(r.log, ast)]
      [] OTHER ->
            LET val == evaluate_steps(ast.e, values, st)
                result == ~val.result
            IN  [result |-> result,
                 steps |-> Insert(val.steps, KeyNot(ast.e), result),
                 log |-> Append(val.log, ast)]

NoSteps == [steps |-> EmptyMap, log |-> <<>>]

----------------------------------------------------------------------------
(* i32 arithmetic of generate_truth_table *)

RECURSIVE Pow2(_)
Pow2(n) == IF n = 0 THEN 1 ELSE 2 * Pow2(n - 1)

\* the value of bit 30, the highest value bit of an i32
TopValueBit == Pow2(I32Bits - 2)

\* i32::MIN, the value whose only set bit is the sign bit
MinI32 == (-TopValueBit) * 2

\* bits 0 .. 30 of the two's-complement representation of the i32 x
LowBits(x) == IF x < 0 THEN x - MinI32 ELSE x

\* x << 1 on i32: bit 31 is lost, bit 30 becomes the sign bit
Shl1(x) ==
    LET low == LowBits(x)
    IN  (low % TopValueBit) * 2 + (IF low >= TopValueBit THEN MinI32 ELSE 0)

\* x << n on i32, for a shift amount n in 0 .. 31
RECURSIVE Shl32(_, _)
Shl32(x, n) == IF n = 0 THEN x ELSE Shl32(Shl1(x), n - 1)

RECURSIVE AndLow(_, _)
AndLow(a, b) ==
    IF a = 0 \/ b = 0 THEN 0
    ELSE (a % 2) * (b % 2) + 2 * AndLow(a \div 2, b \div 2)

\* a & b on i32
And32(a, b) ==
    AndLow(LowBits(a), LowBits(b)) + (IF a < 0 /\ b < 0 THEN MinI32 ELSE 0)

----------------------------------------------------------------------------
(* Inputs *)

Words == {"and", "or", "not", "(", ")", "a", "b"}

\* "a and (b or not c)", the default of main
DefaultExpression == <<"a", "and", "(b", "or", "not", "c)">>

\* v1 or v2 or ... with one variable more than an i32 has value bits
WideExpression ==
    [n \in 1..(2 * I32Bits - 3) |->
        IF n % 2 = 1 THEN "v" \o ToString((n + 1) \div 2) ELSE "or"]

NamedExpressions ==
    { <<"a", "and", "(", "b", "or", "not", "c", ")">>,
      <<"a", "and", "b", "or", "c">>,
      <<"a", "or", "b", "and", "c">>,
      <<"(", "a", "or", "b", ")", "and", "(", "a", "or", "b", ")">>,
      <<"a", "and", "(", "b", "or", "c", ")">>,
      <<"not", "a", "and", "b">>,
      WideExpression }

Expressions ==
    UNION {[1..n -> Words] : n \in 0..MaxLen} \cup NamedExpressions

\* the orders in which a HashSet or HashMap may yield the elements of S: every
\* permutation, for a collection of at most MaxShuffle elements; one order
\* stands for all of them beyond that
RECURSIVE SomeOrder(_)
SomeOrder(S) ==
    IF S = {} THEN <<>>
    ELSE LET x == CHOOSE y \in S : TRUE IN <<x>> \o SomeOrder(S \ {x})

Orderings(S) ==
    IF Cardinality(S) > MaxShuffle
    THEN {SomeOrder(S)}
    ELSE {f \in [1..Cardinality(S) -> S] : \A x \in S : \E n \in DOMAIN f : f[n] = x}

----------------------------------------------------------------------------
(* main and generate_truth_table (src/Proto.rs) *)

\* args.expression.unwrap_or_else(default), tokenize, VecDeque::from, and the
\* outermost call of parse_expr
MainStart ==
    /\ pc = "start"
    /\ LET input == IF args.expression = None THEN DefaultExpression
                    ELSE args.expression[1]
       IN  /\ tokens' = tokenize(input)
           /\ tokens0' = tokenize(input)
    /\ frames' = <<NewFrame>>
    /\ pc' = "parse"
    /\ UNCHANGED <<ret, parsed, mainVars, p2Vars, evalVars>>

\* parse_expr returned None: main prints nothing
MainNoAst ==
    /\ pc = "parsed" /\ parsed = None
    /\ pc' = "done"
    /\ UNCHANGED <<parseVars, mainVars, p2Vars, evalVars>>

\* the AST dump alone, under -s
MainSilent ==
    /\ pc = "parsed" /\ parsed # None /\ args.s
    /\ out' = Append(out, <<"AST", Dbg(parsed[1])>>)
    /\ pc' = "done"
    /\ UNCHANGED <<parseVars, args, vars_, total_rows, i, rows, p2Vars, evalVars>>

\* TotalRows with the operands of << exchanged
TotalRows_swapped(n) == Shl32(n, 1)

\* the value of total_rows
TotalRows(n) == Shl32(1, n)

\* the AST dump, then generate_truth_table up to its loop
MainTable ==
    /\ pc = "parsed" /\ parsed # None /\ ~args.s
    /\ \E order \in Orderings(extract_variables(parsed[1], {})) :
          /\ vars_' = order
          /\ total_rows' = TotalRows(Len(order))
          /\ out' = out \o << <<"AST", Dbg(parsed[1])>>,
                              <<"table_header">>,
                              <<"vars_header", order>> >>
    /\ i' = 0
    /\ pc' = "table"
    /\ UNCHANGED <<parseVars, args, rows, p2Vars, evalVars>>

\* values of row n: the j-th variable is (n & (1 << j)) != 0
RowValue(n, j) == And32(n, Shl32(1, j)) # 0

RowValues(n, vs) ==
    [v \in {vs[m] : m \in DOMAIN vs} |->
        RowValue(n, (CHOOSE m \in DOMAIN vs : vs[m] = v) - 1)]

\* the step lines of a row, printed in the map's iteration order whatever args.e is
StepLines(steps, order) ==
    [m \in DOMAIN order |-> <<"step", order[m], steps[order[m]]>>]

\* one iteration of for i in 0..total_rows
TableRow ==
    /\ pc = "table" /\ i < total_rows
    /\ LET values == RowValues(i, vars_)
           r == evaluate_steps(parsed[1], values, NoSteps)
       IN  /\ rows' = Append(rows, [i |-> i, values |-> values,
                                    result |-> r.result, steps |-> r.steps])
           /\ \E order \in Orderings(DOMAIN r.steps) :
                 out' = out \o << <<"row", values, r.result>>, <<"steps_header">> >>
                            \o StepLines(r.steps, order)
                            \o << <<"separator">> >>
    /\ i' = i + 1
    /\ UNCHANGED <<pc, parseVars, args, vars_, total_rows, p2Vars, evalVars>>

\* the loop of generate_truth_table ends, and main with it
TableEnd ==
    /\ pc = "table" /\ ~(i < total_rows)
    /\ pc' = "done"
    /\ UNCHANGED <<parseVars, mainVars, p2Vars, evalVars>>

Init ==
    /\ args \in [expression : {None} \cup {Some(x) : x \in Expressions},
                 s : BOOLEAN, e : BOOLEAN]
    /\ pc = "start"
    /\ tokens = <<>> /\ tokens0 = <<>> /\ frames = <<>>
    /\ ret = [height |-> 0, res |-> None]
    /\ parsed = None
    /\ out = <<>> /\ vars_ = <<>> /\ total_rows = 0 /\ i = 0 /\ rows = <<>>
    /\ p2_pc = "off" /\ p2_tokens = <<>> /\ p2_stack = <<>> /\ p2_res = None
    /\ e_pc = "off" /\ e_ast = ASTVar("a") /\ e_values = EmptyMap /\ e_out = NoSteps

Next ==
    \/ MainStart
    \/ ParseVar \/ ParseNot \/ ParseLParen \/ ParseBinop \/ ParseRParen \/ ParseEnd
    \/ MainNoAst \/ MainSilent \/ MainTable
    \/ TableRow \/ TableEnd

Spec == Init /\ [][Next]_vars

----------------------------------------------------------------------------
(* parse (src/main.rs), run on the token sequence parse_expr was given *)

\* VecDeque::from(tokens) and the call of parse, once parse_expr has ended
P2Start ==
    /\ p2_pc = "ready" /\ pc \in {"parsed", "panic"}
    /\ p2_tokens' = tokens0
    /\ p2_stack' = <<>>
    /\ p2_pc' = "run"
    /\ UNCHANGED <<p2_res, pc, parseVars, mainVars, evalVars>>

\* Token::Var(v) => stack.push(AST::Var(v))
P2Var ==
    /\ p2_pc = "run" /\ p2_tokens # <<>> /\ Head(p2_tokens)[1] = "Var"
    /\ p2_tokens' = Tail(p2_tokens)
    /\ p2_stack' = Append(p2_stack, ASTVar(Head(p2_tokens)[2]))
    /\ UNCHANGED <<p2_pc, p2_res, pc, parseVars, mainVars, evalVars>>

\* Token::Not => the top of the stack, if any, is wrapped in Not
P2Not ==
    /\ p2_pc = "run" /\ p2_tokens # <<>> /\ Head(p2_tokens) = TNot
    /\ p2_tokens' = Tail(p2_tokens)
    /\ p2_stack' = IF p2_stack = <<>> THEN p2_stack
                   ELSE Append(Front(p2_stack), ASTNot(Last(p2_stack)))
    /\ UNCHANGED <<p2_pc, p2_res, pc, parseVars, mainVars, evalVars>>

\* Token::And | Token::Or => stack.pop()? twice: None is returned at once when
\* the stack holds fewer than two operands
P2Binop ==
    /\ p2_pc = "run" /\ p2_tokens # <<>> /\ IsBinop(Head(p2_tokens))
    /\ p2_tokens' = Tail(p2_tokens)
    /\ IF Len(p2_stack) < 2
       THEN /\ p2_res' = None
            /\ p2_pc' = "done"
            /\ p2_stack' = IF p2_stack = <<>> THEN p2_stack ELSE Front(p2_stack)
       ELSE /\ p2_stack' = Append(SubSeq(p2_stack, 1, Len(p2_stack) - 2),
                                  MkNode(Head(p2_tokens),
                                         p2_stack[Len(p2_stack) - 1],
                                         Last(p2_stack)))
            /\ UNCHANGED <<p2_pc, p2_res>>
    /\ UNCHANGED <<pc, parseVars, mainVars, evalVars>>

\* _ => {} for LParen and RParen
P2Paren ==
    /\ p2_pc = "run" /\ p2_tokens # <<>>
    /\ Head(p2_tokens) \in {TLParen, TRParen}
    /\ p2_tokens' = Tail(p2_tokens)
    /\ UNCHANGED <<p2_pc, p2_stack, p2_res, pc, parseVars, mainVars, evalVars>>

\* the loop ends: stack.pop()
P2End ==
    /\ p2_pc = "run" /\ p2_tokens = <<>>
    /\ p2_res' = PopResult(p2_stack)
    /\ p2_pc' = "done"
    /\ UNCHANGED <<p2_tokens, p2_stack, pc, parseVars, mainVars, evalVars>>

InitDiff ==
    /\ args \in [expression : {None} \cup {Some(x) : x \in Expressions},
                 s : {FALSE}, e : {FALSE}]
    /\ pc = "start"
    /\ tokens = <<>> /\ tokens0 = <<>> /\ frames = <<>>
    /\ ret = [height |-> 0, res |-> None]
    /\ parsed = None
    /\ out = <<>> /\ vars_ = <<>> /\ total_rows = 0 /\ i = 0 /\ rows = <<>>
    /\ p2_pc = "ready" /\ p2_tokens = <<>> /\ p2_stack = <<>> /\ p2_res = None
    /\ e_pc = "off" /\ e_ast = ASTVar("a") /\ e_values = EmptyMap /\ e_out = NoSteps

NextDiff ==
    \/ MainStart
    \/ ParseVar \/ ParseNot \/ ParseLParen \/ ParseBinop \/ ParseRParen \/ ParseEnd
    \/ P2Start \/ P2Var \/ P2Not \/ P2Binop \/ P2Paren \/ P2End

SpecDiff == InitDiff /\ [][NextDiff]_vars

----------------------------------------------------------------------------
(* evaluate_steps called alone, on any AST and any complete or partial assignment *)

EvalNames == {"a", "z"}

\* the ASTs of exactly n nodes over EvalNames
RECURSIVE Trees(_)
Trees(n) ==
    IF n = 1
    THEN {ASTVar(v) : v \in EvalNames}
    ELSE {ASTNot(x) : x \in Trees(n - 1)}
         \cup UNION {UNION {{ASTAnd(l, r), ASTOr(l, r)} :
                            l \in Trees(m), r \in Trees(n - 1 - m)} :
                     m \in 1..(n - 2)}

Assignments == UNION {[S -> BOOLEAN] : S \in SUBSET EvalNames}

\* a call with a fresh steps map, as generate_truth_table makes it
EvalCall ==
    /\ e_pc = "call"
    /\ e_out' = evaluate_steps(e_ast, e_values, NoSteps)
    /\ e_pc' = "done"
    /\ UNCHANGED <<e_ast, e_values, pc, parseVars, mainVars, p2Vars>>

InitEval ==
    /\ args = [expression |-> None, s |-> FALSE, e |-> FALSE]
    /\ pc = "off"
    /\ tokens = <<>> /\ tokens0 = <<>> /\ frames = <<>>
    /\ ret = [height |-> 0, res |-> None]
    /\ parsed = None
    /\ out = <<>> /\ vars_ = <<>> /\ total_rows = 0 /\ i = 0 /\ rows = <<>>
    /\ p2_pc = "off" /\ p2_tokens = <<>> /\ p2_stack = <<>> /\ p2_res = None
    /\ e_pc = "call"
    /\ e_ast \in UNION {Trees(n) : n \in 1..MaxNodes}
    /\ e_values \in Assignments
    /\ e_out = NoSteps

NextEval == EvalCall

SpecEval == InitEval /\ [][NextEval]_vars

----------------------------------------------------------------------------
(* Properties *)

InputIs(words) == args.expression = Some(words)

AfterParse == pc \in {"parsed", "table", "done"}

TableRan == pc \in {"table", "done"} /\ parsed # None /\ ~args.s

\* C1: parse_expr ends by returning an AST or the no-AST signal on every token
\* sequence; no reduction loop reaches its unreachable!() arm, so the program
\* never aborts.
C1_NeverAborts == pc # "panic"

\* the token sequences of the infix grammar
\*   expr ::= term ((and | or) term)*    term ::= Var | not term | ( expr )
RECURSIVE Scan(_, _, _)
Scan(ts, operand, depth) ==
    IF ts = <<>> THEN ~operand /\ depth = 0
    ELSE LET t == Head(ts)
         IN  CASE t[1] = "Var" -> operand /\ Scan(Tail(ts), FALSE, depth)
               [] t = TNot -> operand /\ Scan(Tail(ts), TRUE, depth)
               [] t = TLParen -> operand /\ Scan(Tail(ts), TRUE, depth + 1)
               [] t = TRParen ->
                     ~operand /\ depth > 0 /\ Scan(Tail(ts), FALSE, depth - 1)
               [] OTHER -> ~operand /\ Scan(Tail(ts), TRUE, depth)

WellFormed(ts) == Scan(ts, TRUE, 0)

\* C2: parse_expr returns an AST exactly for well-formed input: one AST for a
\* valid sequence with balanced parentheses, the no-AST signal for an empty
\* one, one with unbalanced parentheses or one with a dangling binary operator,
\* and then main prints nothing.
C2_AstIffWellFormed ==
    /\ AfterParse => ((parsed # None) <=> WellFormed(tokens0))
    /\ (pc = "done" /\ ~WellFormed(tokens0)) => out = <<>>

Scenario2 == <<"not", "a">>
Scenario3 == <<"a", "and", "(", "b", "or", "not", "c", ")">>

\* C3: a not token negates the operand that follows it: `not a` gives 1
\* variable and 2 rows with result = ~a, and `a and ( b or not c )` gives 3
\* variables and 8 rows with result = a /\ (b \/ ~c) in every row.
C3_NotNegates ==
    /\ (InputIs(Scenario2) /\ TableRan) =>
          /\ Len(vars_) = 1
          /\ \A n \in DOMAIN rows : rows[n].result = ~rows[n].values["a"]
          /\ pc = "done" => Len(rows) = 2
    /\ InputIs(Scenario3) =>
          /\ pc # "panic"
          /\ TableRan =>
                /\ Len(vars_) = 3
                /\ \A n \in DOMAIN rows :
                      LET v == rows[n].values
                      IN  rows[n].result = (v["a"] /\ (v["b"] \/ ~v["c"]))
                /\ pc = "done" => Len(rows) = 8

\* m = 2^n
RECURSIVE ExactlyPow2(_, _)
ExactlyPow2(m, n) ==
    IF n = 0 THEN m = 1 ELSE m % 2 = 0 /\ ExactlyPow2(m \div 2, n - 1)

\* bit j of the natural number m
MathBit(m, j) == (m \div Pow2(j)) % 2 = 1

VarSet == extract_variables(parsed[1], {})

RowsEnumerateAssignments ==
    /\ {vars_[m] : m \in DOMAIN vars_} = VarSet
    /\ Len(vars_) = Cardinality(VarSet)
    /\ \A n \in DOMAIN rows :
          /\ rows[n].i = n - 1
          /\ DOMAIN rows[n].values = VarSet
          /\ \A j \in DOMAIN vars_ :
                rows[n].values[vars_[j]] = MathBit(n - 1, j - 1)
    /\ pc = "done" =>
          /\ ExactlyPow2(Len(rows), Len(vars_))
          /\ \A f \in [VarSet -> BOOLEAN] :
                Cardinality({n \in DOMAIN rows : rows[n].values = f}) = 1

\* C4 as stated: for every AST with n distinct variables generate_truth_table
\* evaluates exactly 2^n rows, row i assigning bit j of i to the j-th variable,
\* so every assignment is evaluated exactly once.
C4_RowsForEveryAst == TableRan => RowsEnumerateAssignments

\* C4 as amended: the same for every AST with at most 30 distinct variables,
\* the counts for which 1 << n is a positive i32.
C4_RowsUpTo30Vars ==
    (TableRan /\ Len(vars_) < I32Bits - 1) => RowsEnumerateAssignments

C4_Witness ==
    /\ pc = "done" /\ TableRan
    /\ Len(vars_) = 3 /\ Len(rows) = 8
    /\ rows[6].values[vars_[1]] /\ ~rows[6].values[vars_[2]] /\ rows[6].values[vars_[3]]

\* the Boolean value of an AST under an assignment, absent variables false
RECURSIVE RefEval(_, _)
RefEval(ast, values) ==
    CASE ast.k = "Var" -> ast.v \in DOMAIN values /\ values[ast.v]
      [] ast.k = "Not" -> ~RefEval(ast.e, values)
      [] ast.k = "And" -> RefEval(ast.l, values) /\ RefEval(ast.r, values)
      [] OTHER -> RefEval(ast.l, values) \/ RefEval(ast.r, values)

WithFalse(values, z) ==
    [v \in DOMAIN values \cup {z} |-> IF v = z THEN FALSE ELSE values[v]]

\* C5: evaluate_steps returns the reference Boolean value of the AST under the
\* assignment, a variable absent from the assignment counting as false; the
\* result is the one obtained with the absent variable set to false.
C5_EvalMatchesReference ==
    e_pc = "done" =>
        /\ e_out.result = RefEval(e_ast, e_values)
        /\ \A z \in EvalNames \ DOMAIN e_values :
              evaluate_steps(e_ast, WithFalse(e_values, z), NoSteps).result
                  = e_out.result

C5_Witness ==
    /\ e_pc = "done"
    /\ e_ast = ASTAnd(ASTVar("a"), ASTNot(ASTVar("z")))
    /\ DOMAIN e_values = {"a"} /\ e_values["a"]
    /\ e_out.result

\* C6: a parse_expr call returns an AST only if its operand stack holds exactly
\* one entry once the operators are drained; with zero or several entries it
\* returns the no-AST signal.
C6_AstOnlyFromSoleOperand == ret.res # None => ret.height = 1

\* C7: without the expand flag no step line is printed for any row.
C7_StepsOnlyWhenExpand ==
    ~args.e => \A n \in DOMAIN out : out[n][1] # "step"

\* the nodes of an AST, operands before the node, left before right
RECURSIVE PostOrder(_)
PostOrder(ast) ==
    CASE ast.k = "Var" -> <<ast>>
      [] ast.k = "Not" -> PostOrder(ast.e) \o <<ast>>
      [] OTHER -> PostOrder(ast.l) \o PostOrder(ast.r) \o <<ast>>

KeyOf(ast) ==
    CASE ast.k = "Not" -> KeyNot(ast.e)
      [] ast.k = "And" -> KeyAnd(ast.l, ast.r)
      [] OTHER -> KeyOr(ast.l, ast.r)

Compound(ast) ==
    {PostOrder(ast)[n] : n \in {m \in DOMAIN PostOrder(ast) : PostOrder(ast)[m].k # "Var"}}

\* C8: one evaluate_steps pass evaluates every node exactly once, operands
\* before their node and whatever the operand values are; afterwards the
\* StepTrace has an entry for every compound sub-expression and no other, each
\* holding the sub-expression's value under the assignment.
C8_EveryNodeOnce ==
    e_pc = "done" =>
        /\ e_out.log = PostOrder(e_ast)
        /\ DOMAIN e_out.steps = {KeyOf(x) : x \in Compound(e_ast)}
        /\ \A x \in Compound(e_ast) :
              e_out.steps[KeyOf(x)] = RefEval(x, e_values)

C8_Witness ==
    /\ e_pc = "done"
    /\ e_ast = ASTAnd(ASTNot(ASTVar("a")), ASTNot(ASTVar("a")))
    /\ DOMAIN e_values = {"a"} /\ e_values["a"]
    /\ Len(e_out.log) = 5
    /\ Cardinality(DOMAIN e_out.steps) = 2

\* v1 op1 v2 ... vn: variables at the odd positions, And or Or between them
IsChain(ts) ==
    /\ Len(ts) % 2 = 1
    /\ \A n \in DOMAIN ts :
          IF n % 2 = 1 THEN ts[n][1] = "Var" ELSE IsBinop(ts[n])

\* ((v1 op1 v2) op2 v3) ... vn
RECURSIVE LeftNested(_)
LeftNested(ts) ==
    IF Len(ts) = 1 THEN ASTVar(ts[1][2])
    ELSE LET left == LeftNested(SubSeq(ts, 1, Len(ts) - 2))
             right == ASTVar(ts[Len(ts)][2])
         IN  IF ts[Len(ts) - 1] = TAnd THEN ASTAnd(left, right)
             ELSE ASTOr(left, right)

PendingBinops(f) ==
    Cardinality({n \in DOMAIN f.operators : IsBinop(f.operators[n])})

\* C9: at most one binary operator is pending in a parse_expr call, and a
\* sequence v1 op1 v2 ... vn without parentheses or not parses to the
\* left-nested tree; a single variable parses to a Var leaf.
C9_LeftAssociative ==
    /\ \A n \in DOMAIN frames : PendingBinops(frames[n]) <= 1
    /\ (AfterParse /\ IsChain(tokens0)) => parsed = Some(LeftNested(tokens0))

C9_Witness ==
    /\ pc = "parsed"
    /\ InputIs(<<"a", "or", "b", "and", "c">>)
    /\ parsed = Some(ASTAnd(ASTOr(ASTVar("a"), ASTVar("b")), ASTVar("c")))

\* C10: on `not a and b` parse_expr and parse each return an AST, and the two
\* ASTs differ.
C10_BothParseDifferently ==
    (InputIs(<<"not", "a", "and", "b">>) /\ pc = "parsed" /\ p2_pc = "done") =>
        /\ parsed # None
        /\ p2_res # None
        /\ parsed # p2_res

====
